---- MODULE Spec2Model ----
(***************************************************************************)
(* Chrome Focus: the command line tool (chrome_focus.py) and the policy    *)
(* watcher daemon (daemon.py); focusd: sync() of sync_file.py and          *)
(* publish() of publish.py.                                                *)
(*                                                                         *)
(* State: the policy file, the lock file, the daemon processes with their  *)
(* queue of filesystem notifications, and the running CLI command with its *)
(* terminal.  One action per step of a command, of the daemon and of the   *)
(* environment (keystrokes, tampering, signals, filesystem failures).      *)
(***************************************************************************)
EXTENDS Integers, Sequences, FiniteSets, TLC

VARIABLES policy, lock, fsOk, proc, evq, npid, cli, hasTermios,
          target, temp, sameFs, sy, seen,
          namesFile, svc, bins, pb

\* the file sync() works on, its temporary file and a reader of the file
syncVars == <<target, temp, sameFs, sy, seen>>

\* the names file, the service folder, the binary folder and publish()
pubVars == <<namesFile, svc, bins, pb>>

vars == <<policy, lock, fsOk, proc, evq, npid, cli, hasTermios, syncVars, pubVars>>

\* ------------------------------------------------------------------------
\* Bounds of the model
\* ------------------------------------------------------------------------
\* number of daemon processes that can be spawned in one behaviour
MaxPid == 3
\* keystrokes delivered to one disable session
MaxKeys == 2
\* notifications a tamperer may pile up in a watcher's queue
MaxQueue == 2
\* command slots (shell invocations that may exist side by side)
NumCli == 2

Pids == 1..MaxPid
Slots == 1..NumCli

\* ------------------------------------------------------------------------
\* Program constants
\* ------------------------------------------------------------------------
MinDuration == 1
MaxDuration == 60

\* ------------------------------------------------------------------------
\* File contents
\* ------------------------------------------------------------------------
\* a file that does not exist
Absent == <<"ABSENT">>

\* json.dump({"ExtensionInstallForcelist": plugin_ids}, f, indent=2): an
\* object with one key, never blank and never the two characters "{}"
Rendered == <<"{", "x", "}">>

\* what a tamperer may write into the policy file in place
TamperContents ==
    { <<>>, <<" ">>, <<"{", "}">>, <<" ", "{", "}", " ">>, <<"{", " ", "}">>, <<"x">> }

IsSpace(ch) == ch \in {" ", "\n"}

RECURSIVE LStrip(_)
LStrip(s) == IF s # <<>> /\ IsSpace(Head(s)) THEN LStrip(Tail(s)) ELSE s

RECURSIVE RStrip(_)
RStrip(s) ==
    IF s # <<>> /\ IsSpace(s[Len(s)]) THEN RStrip(SubSeq(s, 1, Len(s) - 1)) ELSE s

\* str.strip()
Strip(s) == RStrip(LStrip(s))

\* daemon.py on_modified: `not content or content == "{}"` on the stripped text
IsClearedAlt(content) == Strip(content) = <<>>
IsCleared(content) == Strip(content) = <<>> \/ Strip(content) = <<"{", "}">>

\* ------------------------------------------------------------------------
\* Processes and notifications
\* ------------------------------------------------------------------------
\* unborn:   pid never used
\* starting: daemon.main before observer.start()
\* watching: observer running, dispatcher thread idle or between events
\* grace:    dispatcher thread inside on_deleted, in time.sleep(0.5)
\* deaf:     process alive, dispatcher thread ended by an uncaught exception
\* dead:     process gone
ProcStates == {"unborn", "starting", "watching", "grace", "deaf", "dead"}

\* psutil.pid_exists(pid)
PidExistsAlt(pid) == pid # 0
PidExists(pid) == pid \in Pids /\ proc[pid] \notin {"unborn", "dead"}

\* the inotify watch of the policy directory is in place
Observing(st) == st \in {"watching", "grace"}

Ev(kind, path) == [kind |-> kind, path |-> path]

\* notifications produced by open(policy_path, 'w') + write + close
WriteEvents(old) ==
    IF old = Absent THEN <<Ev("created", "policy"), Ev("modified", "policy")>>
                    ELSE <<Ev("modified", "policy")>>

\* deliver notifications to every process that watches the directory
Emit(q, pr, evs) == [p \in Pids |-> IF Observing(pr[p]) THEN q[p] \o evs ELSE q[p]]

\* ------------------------------------------------------------------------
\* Disable gate
\* ------------------------------------------------------------------------
\* get_motivational_quote(): an opaque string
Quotes == { <<"a">> }

\* keys: two printable characters, backspace, Enter, Ctrl+C, a control char
Keys == {"a", "b", "BS", "CR", "ETX", "ESC"}

\* char.isprintable() or char == ' '
IsPrintable(ch) == ch \in {"a", "b"}

\* values given to --duration; <<>> is "option not given"
DurationInputs == { <<>>, <<-1>>, <<0>>, <<1>>, <<60>>, <<61>> }

\* off(): `duration < 1 or duration > 60`
DurationRejectedAlt(d) == d # <<>> /\ (d[1] < MinDuration \/ d[1] >= MaxDuration)
DurationRejected(d) == d # <<>> /\ (d[1] < MinDuration \/ d[1] > MaxDuration)

GateStates ==
    {"IDLE", "QUOTE_FETCHED", "TYPING", "MATCHED", "MISMATCHED", "PASTE_DETECTED", "CANCELLED"}

IdleCli ==
    [ pc |-> "idle", cmd |-> "none", duration |-> <<>>, quote |-> <<>>,
      typed |-> <<>>, tty |-> <<>>, buf |-> <<>>, char |-> "", keys |-> 0,
      gate |-> "IDLE", calls |-> <<>>, spawned |-> 0, saw |-> "none",
      msg |-> "", paste |-> FALSE, sig |-> 0, found |-> "none" ]

\* ------------------------------------------------------------------------
\* sync(file_content, file_path) of sync_file.py
\* ------------------------------------------------------------------------
\* os.fdopen(fd, "w"): a text stream with the default buffer (8192 bytes,
\* scaled to 3 characters); write() of a string shorter than the buffer
\* stays in the stream until flush or close, a longer one goes to the file
StreamBuffer == 3

WritesThrough(content) == Len(content) >= StreamBuffer

\* contents sync() is called with: short texts and one that fills the buffer
SyncContents == { <<>>, <<"a">>, <<"b">>, <<"a", "b", "c">> }

\* md5(expected_bytes).hexdigest() == md5(file_bytes).hexdigest()
SameHash(a, b) == a = b

\* no call of sync() has returned yet
NoCall == <<"NOCALL">>

\* pc:      where sync() is
\* content: file_content
\* wbuf:    what tmp.write() left in the stream buffer
\* fd:      the file the descriptor of mkstemp() refers to
\* old:     the target when sync() was called
\* prev:    file_content of the call that returned last
\* again:   this call follows a call with the same file_content
\* wrote:   this call has replaced or rewritten the target
IdleSync ==
    [ pc |-> "idle", content |-> <<>>, wbuf |-> <<>>, fd |-> "none",
      old |-> Absent, prev |-> NoCall, again |-> FALSE, wrote |-> FALSE ]

\* the target after sync(content, path) has returned, old being the target
\* before: untouched on equal hashes; otherwise what the temporary file held
\* when it was moved, plus the stream buffer if the move was a rename
SyncResult(old, content) ==
    IF old # Absent /\ SameHash(old, content) THEN old
    ELSE IF sameFs \/ WritesThrough(content) THEN content
    ELSE <<>>

\* ------------------------------------------------------------------------
\* publish(bin_path, count) of publish.py
\* ------------------------------------------------------------------------
\* largest --count given to publish
MaxCount == 2

Counts == 0..MaxCount

SystemServiceFileFolder == "/lib/systemd/system/"

\* lines of the names file as f.readlines() returns them: a name, a name
\* with a blank after it, an empty line
Line(name) == <<name, "\n">>

AllLines == { Line("a"), <<"a", " ", "\n">>, Line("b"), Line("c"), <<"\n">> }

NamesFiles ==
    { <<>>,
      <<Line("a")>>,
      <<Line("a"), Line("b")>>,
      <<Line("b"), <<"a", " ", "\n">>, Line("b")>>,
      <<Line("a"), Line("b"), <<"\n">>>>,
      <<Line("c"), Line("a"), Line("b")>> }

\* os.path.join(system_service_file_folder, fake_name.strip() + ".service")
ServicePath(line) == <<SystemServiceFileFolder>> \o Strip(line) \o <<".service">>

\* os.path.basename(service_path)
Basename(path) == Tail(path)

\* file_name.split(".")[0]
NoExt(file) ==
    LET dot == CHOOSE i \in 1..Len(file) :
                   file[i] = ".service" /\ \A j \in 1..(i - 1) : file[j] # ".service"
    IN SubSeq(file, 1, dot - 1)

\* the service files the model knows: those of the names, and one service
\* of the host with a name that is on no list
UnitPaths ==
    { ServicePath(l) : l \in AllLines } \cup { <<SystemServiceFileFolder, "z", ".service">> }

\* a service file that publish did not write
ForeignUnit == <<"foreign">>

\* Template(templates.service_template).render(name=file_name_no_ext)
ServiceTemplate(name) == <<"focusd">> \o name

\* order of str: "." sorts before the letters
CharRank(ch) ==
    CASE ch = SystemServiceFileFolder -> 0
      [] ch = ".service" -> 1
      [] ch = "a" -> 2
      [] ch = "b" -> 3
      [] ch = "c" -> 4
      [] OTHER -> 5

RECURSIVE Before(_, _)
Before(f, g) ==
    IF f = <<>> THEN g # <<>>
    ELSE IF g = <<>> THEN FALSE
    ELSE IF Head(f) = Head(g) THEN Before(Tail(f), Tail(g))
    ELSE CharRank(Head(f)) < CharRank(Head(g))

\* list(set(...)) followed by sort()
RECURSIVE SortSet(_)
SortSet(S) ==
    IF S = {} THEN <<>>
    ELSE LET m == CHOOSE x \in S : \A y \in S \ {x} : Before(x, y)
         IN <<m>> \o SortSet(S \ {m})

SeqRange(q) == { q[i] : i \in 1..Len(q) }

\* get_fake_service_paths()
GetFakeServicePaths == SortSet({ ServicePath(namesFile[i]) : i \in 1..Len(namesFile) })

\* glob.glob(folder + "*.service") filtered by os.path.isfile: the pattern
\* does not match a file whose name starts with a dot
GlobServices ==
    { f \in UnitPaths : svc[f] # Absent /\ Head(Basename(f)) # ".service" }

\* get_fake_systemd_service_from_fs()
GetFakeSystemdServiceFromFsAlt == <<>>
GetFakeSystemdServiceFromFs == SortSet(SeqRange(GetFakeServicePaths) \cap GlobServices)

\* get_target_system_service_paths(count): the lists it can return, one for
\* each outcome of shuffle(diff)
GetTargetSystemServicePathsAlt(count) ==
    LET fake == SeqRange(GetFakeServicePaths)
        fs == SeqRange(GetFakeSystemdServiceFromFs)
        diff == fake \ fs
        take == IF count < Cardinality(diff) THEN count ELSE Cardinality(diff)
    IN IF Cardinality(fs) < count
       THEN { SortSet(fs \cup pick) : pick \in { P \in SUBSET diff : Cardinality(P) = take } }
       ELSE { SortSet(fs) }
GetTargetSystemServicePaths(count) ==
    LET fake == SeqRange(GetFakeServicePaths)
        fs == SeqRange(GetFakeSystemdServiceFromFs)
        lenCurrent == Cardinality(fs)
        diff == fake \ fs
        take == IF count - lenCurrent < Cardinality(diff) THEN count - lenCurrent
                ELSE Cardinality(diff)
    IN IF lenCurrent < count
       THEN { SortSet(fs \cup pick) : pick \in { P \in SUBSET diff : Cardinality(P) = take } }
       ELSE { SortSet(fs) }

\* no publish has completed yet
NoPublish == <<"NOPUBLISH">>

\* pc:      where publish() is
\* count:   --count
\* targets: expected_systemd_services_paths
\* i:       index of the loop in hand
\* ops:     what publish() has done so far, in order
\* foreign: candidate service files that held a foreign unit at the call
\* had:     service files that existed at the call
\* prev, prevCount: targets and count of the publish that completed last
\* again:   this publish follows a completed one with the same count
IdlePublish ==
    [ pc |-> "idle", count |-> 0, targets |-> <<>>, i |-> 0, ops |-> <<>>,
      foreign |-> {}, had |-> {}, prev |-> NoPublish, prevCount |-> 0,
      again |-> FALSE ]

\* publish() is not running, nothing is installed
PublishAtRest ==
    /\ namesFile = <<>>
    /\ svc = [f \in UnitPaths |-> Absent]
    /\ bins = {}
    /\ pb = IdlePublish

\* ------------------------------------------------------------------------
\* Initial state: nothing installed, nothing running
\* ------------------------------------------------------------------------
InitChrome ==
    /\ policy = Absent
    /\ lock = 0
    /\ fsOk = TRUE
    /\ proc = [p \in Pids |-> "unborn"]
    /\ evq = [p \in Pids |-> <<>>]
    /\ npid = 0
    /\ cli = [c \in Slots |-> IdleCli]

\* sync() is not running
SyncAtRest ==
    /\ target = Absent
    /\ temp = Absent
    /\ sameFs = TRUE
    /\ sy = IdleSync
    /\ seen = {}

Init ==
    /\ InitChrome
    /\ hasTermios \in BOOLEAN
    /\ SyncAtRest
    /\ PublishAtRest

Called(c, f) == Append(cli[c].calls, f)

\* ------------------------------------------------------------------------
\* CLI: one shell invocation at a time
\* ------------------------------------------------------------------------
FirstPc(cmd) ==
    CASE cmd = "on" -> "on_create"
      [] cmd = "off" -> "off_validate"
      [] cmd = "status" -> "status"

\* the watchers are not backlogged: the operator and a tamperer act at human
\* speed, so a watcher's queue holds few unhandled notifications
QueueRoom == \A p \in Pids : Len(evq[p]) < MaxQueue

Invoke(c, cmd, d) ==
    /\ \A s \in Slots : cli[s].pc = "idle"
    /\ QueueRoom
    /\ c = 1
    /\ cmd = "off" \/ d = <<>>
    /\ cli' = [cli EXCEPT ![c] = [IdleCli EXCEPT !.pc = FirstPc(cmd), !.cmd = cmd,
                                                  !.duration = d]]
    /\ UNCHANGED <<policy, lock, fsOk, proc, evq, npid, hasTermios, syncVars, pubVars>>

\* create_chrome_policy() of chrome_focus.py, called by on() and by off()
\* after the timed wait; an OSError propagates and ends the command
CliCreatePolicy(c) ==
    /\ cli[c].pc \in {"on_create", "off_create"}
    /\ IF fsOk
       THEN /\ policy' = Rendered
            /\ evq' = Emit(evq, proc, WriteEvents(policy))
            /\ cli' = [cli EXCEPT ![c].pc = "start_check",
                                  ![c].calls = Called(c, "create_chrome_policy")]
       ELSE /\ cli' = [cli EXCEPT ![c].pc = "aborted",
                                  ![c].calls = Called(c, "create_chrome_policy")]
            /\ UNCHANGED <<policy, evq>>
    /\ UNCHANGED <<lock, fsOk, proc, npid, hasTermios, syncVars, pubVars>>

\* start_daemon(): `if pid_file.exists(): ... if psutil.pid_exists(pid):`
AlreadyRunningAlt(lk) == FALSE
AlreadyRunning(lk) == lk # 0 /\ PidExists(lk)

\* start_daemon(): the "already running" check
StartCheck(c) ==
    /\ cli[c].pc = "start_check"
    /\ LET saw == IF lock = 0 THEN "nolock" ELSE IF proc[lock] = "dead" THEN "stale" ELSE "live"
       IN cli' = [cli EXCEPT ![c].pc = IF AlreadyRunning(lock) THEN "done" ELSE "start_spawn",
                             ![c].msg = IF AlreadyRunning(lock) THEN "already running" ELSE "",
                             ![c].saw = saw,
                             ![c].calls = Called(c, "start_daemon")]
    /\ UNCHANGED <<policy, lock, fsOk, proc, evq, npid, hasTermios, syncVars, pubVars>>

\* start_daemon(): subprocess.Popen(..., start_new_session=True)
StartSpawnAlt(c) ==
    /\ cli[c].pc = "start_spawn"
    /\ IF AlreadyRunning(lock)
       THEN /\ cli' = [cli EXCEPT ![c].pc = "done", ![c].msg = "already running"]
            /\ UNCHANGED <<npid, proc>>
       ELSE /\ npid < MaxPid
            /\ npid' = npid + 1
            /\ proc' = [proc EXCEPT ![npid + 1] = "starting"]
            /\ cli' = [cli EXCEPT ![c].pc = "start_lock", ![c].spawned = npid + 1]
    /\ UNCHANGED <<policy, lock, fsOk, evq, hasTermios, syncVars, pubVars>>
StartSpawn(c) ==
    /\ cli[c].pc = "start_spawn"
    /\ npid < MaxPid
    /\ npid' = npid + 1
    /\ proc' = [proc EXCEPT ![npid + 1] = "starting"]
    /\ cli' = [cli EXCEPT ![c].pc = "start_lock", ![c].spawned = npid + 1]
    /\ UNCHANGED <<policy, lock, fsOk, evq, hasTermios, syncVars, pubVars>>

\* start_daemon(): write proc.pid to the lock file
StartWriteLock(c) ==
    /\ cli[c].pc = "start_lock"
    /\ lock' = cli[c].spawned
    /\ cli' = [cli EXCEPT ![c].pc = "done", ![c].msg = "started"]
    /\ UNCHANGED <<policy, fsOk, proc, evq, npid, hasTermios, syncVars, pubVars>>

\* status(): reads the lock file, the process table and the policy path
Status(c) ==
    /\ cli[c].pc = "status"
    /\ cli' = [cli EXCEPT ![c].pc = "done",
                          ![c].msg = IF lock # 0 /\ PidExists(lock) THEN "running" ELSE "stopped"]
    /\ UNCHANGED <<policy, lock, fsOk, proc, evq, npid, hasTermios, syncVars, pubVars>>

\* the command returns to the shell
Finish(c) ==
    /\ cli[c].pc \in {"done", "aborted"}
    /\ cli' = [cli EXCEPT ![c] = IdleCli]
    /\ UNCHANGED <<policy, lock, fsOk, proc, evq, npid, hasTermios, syncVars, pubVars>>

\* ------------------------------------------------------------------------
\* CLI: off [--duration N]
\* ------------------------------------------------------------------------
\* off(): validate the duration
OffValidate(c) ==
    /\ cli[c].pc = "off_validate"
    /\ cli' = [cli EXCEPT ![c].pc = IF DurationRejected(cli[c].duration) THEN "done" ELSE "off_quote",
                          ![c].msg = IF DurationRejected(cli[c].duration) THEN "duration error" ELSE ""]
    /\ UNCHANGED <<policy, lock, fsOk, proc, evq, npid, hasTermios, syncVars, pubVars>>

\* off(): quote = get_motivational_quote()
OffFetchQuote(c) ==
    /\ cli[c].pc = "off_quote"
    /\ \E q \in Quotes :
          cli' = [cli EXCEPT ![c].pc = "gate_enter", ![c].quote = q,
                             ![c].gate = "QUOTE_FETCHED",
                             ![c].calls = Called(c, "get_motivational_quote")]
    /\ UNCHANGED <<policy, lock, fsOk, proc, evq, npid, hasTermios, syncVars, pubVars>>

\* lines a user may give to input() where termios is missing
FallbackLines == { <<>>, <<"a">>, <<"a", " ">>, <<"b">>, <<"a", "b">> }

\* where off() continues after read_quote_no_paste() returned
AfterGateAlt(result) == IF result \in {"MATCHED", "MISMATCHED"} THEN "off_stop" ELSE "done"
AfterGate(result) == IF result = "MATCHED" THEN "off_stop" ELSE "done"

\* read_quote_no_paste(): without termios one buffered line, compared after
\* strip(); with termios tty.setraw(fd), which discards pending input
GateEnter(c) ==
    /\ cli[c].pc = "gate_enter"
    /\ IF hasTermios
       THEN cli' = [cli EXCEPT ![c].pc = "gate_read", ![c].gate = "TYPING",
                               ![c].tty = <<>>, ![c].buf = <<>>]
       ELSE \E line \in FallbackLines :
              LET res == IF Strip(line) = cli[c].quote THEN "MATCHED" ELSE "MISMATCHED"
              IN cli' = [cli EXCEPT ![c].pc = AfterGate(res), ![c].gate = res,
                                    ![c].typed = line]
    /\ UNCHANGED <<policy, lock, fsOk, proc, evq, npid, hasTermios, syncVars, pubVars>>

\* a key press (or one character of a pasted text) reaches the terminal queue
Key(c, ch) ==
    /\ cli[c].pc \in {"gate_read", "gate_check"}
    /\ cli[c].keys < MaxKeys
    /\ cli' = [cli EXCEPT ![c].tty = Append(@, ch), ![c].keys = @ + 1]
    /\ UNCHANGED <<policy, lock, fsOk, proc, evq, npid, hasTermios, syncVars, pubVars>>

\* char = sys.stdin.read(1): sys.stdin is a buffered text stream; when its
\* buffer is empty it blocks for input and takes everything the terminal
\* has queued (one chunk) into the buffer, then hands out one character.
\* paste: further input was already queued when this character was read.
GateRead(c) ==
    /\ cli[c].pc = "gate_read"
    /\ cli[c].buf # <<>> \/ cli[c].tty # <<>>
    /\ LET avail == IF cli[c].buf # <<>> THEN cli[c].buf ELSE cli[c].tty
       IN cli' = [cli EXCEPT ![c].pc = "gate_check",
                             ![c].char = Head(avail),
                             ![c].buf = Tail(avail),
                             ![c].tty = IF cli[c].buf # <<>> THEN @ ELSE <<>>,
                             ![c].paste = @ \/ Len(cli[c].buf \o cli[c].tty) > 1]
    /\ UNCHANGED <<policy, lock, fsOk, proc, evq, npid, hasTermios, syncVars, pubVars>>

\* select.select([sys.stdin], [], [], 0.0)[0]: the terminal queue of the
\* file descriptor has input (the stream's own buffer is not looked at)
SelectReady(c) == cli[c].tty # <<>>

\* the outcome of the typing loop for the character just read; "" = go on
GateOutcome(c) ==
    IF SelectReady(c) THEN "PASTE_DETECTED"
    ELSE IF cli[c].char = "ETX" THEN "CANCELLED"
    ELSE IF cli[c].char = "BS" THEN ""
    ELSE IF cli[c].char = "CR"
         THEN (IF cli[c].typed = cli[c].quote THEN "MATCHED" ELSE "MISMATCHED")
    ELSE ""

\* typed after the character just read, when the loop goes on
TypedAfter(c) ==
    IF cli[c].char = "BS"
    THEN (IF cli[c].typed # <<>> THEN SubSeq(cli[c].typed, 1, Len(cli[c].typed) - 1)
                                 ELSE cli[c].typed)
    ELSE IF IsPrintable(cli[c].char) THEN Append(cli[c].typed, cli[c].char)
    ELSE cli[c].typed

\* read_quote_no_paste(): the rest of one loop iteration; on a terminal
\* outcome the terminal settings are restored and off() acts on the result
GateCheck(c) ==
    /\ cli[c].pc = "gate_check"
    /\ LET out == GateOutcome(c)
       IN IF out = ""
          THEN cli' = [cli EXCEPT ![c].pc = "gate_read", ![c].typed = TypedAfter(c)]
          ELSE cli' = [cli EXCEPT ![c].pc = AfterGate(out), ![c].gate = out,
                                  ![c].tty = <<>>, ![c].buf = <<>>]
    /\ UNCHANGED <<policy, lock, fsOk, proc, evq, npid, hasTermios, syncVars, pubVars>>

\* stop_daemon(): os.kill(pid, signal.SIGTERM) when psutil.pid_exists(pid);
\* the daemon installs no handler, the signal ends the process
StopProcAlt(lk) == proc
StopProc(lk) == [p \in Pids |-> IF p = lk /\ PidExists(lk) THEN "dead" ELSE proc[p]]

\* stop_daemon(): the pid that os.kill(pid, signal.SIGTERM) is called for
\* (0: no signal): the pid of the lock file, `if psutil.pid_exists(pid)`
StopSignalAlt(lk) == lk
StopSignal(lk) == IF lk # 0 /\ PidExists(lk) THEN lk ELSE 0

\* stop_daemon(): no lock file: message only; otherwise SIGTERM to the
\* recorded pid if it exists, and the lock file is removed
OffStopDaemonAlt(c) ==
    /\ cli[c].pc = "off_stop"
    /\ cli' = [cli EXCEPT ![c].pc = "off_remove", ![c].calls = Called(c, "stop_daemon")]
    /\ UNCHANGED <<policy, lock, fsOk, proc, evq, npid, hasTermios, syncVars, pubVars>>
OffStopDaemon(c) ==
    /\ cli[c].pc = "off_stop"
    /\ IF lock = 0
       THEN UNCHANGED <<lock, proc, evq>>
       ELSE /\ lock' = 0
            /\ proc' = StopProc(lock)
            /\ evq' = [p \in Pids |-> IF StopProc(lock)[p] = "dead" THEN <<>> ELSE evq[p]]
    /\ cli' = [cli EXCEPT ![c].pc = "off_remove", ![c].calls = Called(c, "stop_daemon"),
                          ![c].sig = StopSignal(lock),
                          ![c].found = IF lock = 0 THEN "nolock"
                                       ELSE IF lock \in Pids /\ proc[lock] = "dead" THEN "stale"
                                       ELSE "live"]
    /\ UNCHANGED <<policy, fsOk, npid, hasTermios, syncVars, pubVars>>

\* off(): `if duration:` after the policy was removed
AfterRemoveAlt(d) == "done"
AfterRemove(d) == IF d # <<>> /\ d[1] # 0 THEN "off_sleep" ELSE "done"

\* remove_chrome_policy(), then `if duration:`
OffRemovePolicy(c) ==
    /\ cli[c].pc = "off_remove"
    /\ IF policy # Absent
       THEN /\ policy' = Absent
            /\ evq' = Emit(evq, proc, <<Ev("deleted", "policy")>>)
       ELSE UNCHANGED <<policy, evq>>
    /\ cli' = [cli EXCEPT ![c].pc = AfterRemove(cli[c].duration),
                          ![c].calls = Called(c, "remove_chrome_policy")]
    /\ UNCHANGED <<lock, fsOk, proc, npid, hasTermios, syncVars, pubVars>>

\* time.sleep(duration * 60) ran to its end
OffSleep(c) ==
    /\ cli[c].pc = "off_sleep"
    /\ cli' = [cli EXCEPT ![c].pc = "off_create", ![c].calls = Called(c, "sleep")]
    /\ UNCHANGED <<policy, lock, fsOk, proc, evq, npid, hasTermios, syncVars, pubVars>>

\* SIGINT while the command is in time.sleep(): the terminal is back in
\* cooked mode, no handler is installed and nothing catches the
\* KeyboardInterrupt, so the command ends there
Interrupt(c) ==
    /\ cli[c].pc = "off_sleep"
    /\ cli' = [cli EXCEPT ![c].pc = "aborted"]
    /\ UNCHANGED <<policy, lock, fsOk, proc, evq, npid, hasTermios, syncVars, pubVars>>

\* ------------------------------------------------------------------------
\* Daemon (daemon.py)
\* ------------------------------------------------------------------------
\* main(): create the policy if it is missing, then start the observer; an
\* error of create_chrome_policy() here is uncaught and ends the process
DaemonStartup(p) ==
    /\ proc[p] = "starting"
    /\ IF policy = Absent
       THEN IF fsOk
            THEN /\ policy' = Rendered
                 /\ evq' = Emit(evq, proc, WriteEvents(policy))
                 /\ proc' = [proc EXCEPT ![p] = "watching"]
            ELSE /\ proc' = [proc EXCEPT ![p] = "dead"]
                 /\ UNCHANGED <<policy, evq>>
       ELSE /\ proc' = [proc EXCEPT ![p] = "watching"]
            /\ UNCHANGED <<policy, evq>>
    /\ UNCHANGED <<lock, fsOk, npid, cli, hasTermios, syncVars, pubVars>>

\* `event.src_path == str(self.policy_file)`
IsPolicyPathAlt(e) == e.path = "managed"
IsPolicyPath(e) == e.path = "policy"

\* the dispatcher thread is between two notifications: a handler runs in
\* the dispatcher thread, which takes the next one when the handler returned
DispatcherFreeAlt(st) == Observing(st)
DispatcherFree(st) == st = "watching"

\* the dispatcher thread takes the next notification.  on_deleted of the
\* policy path: enter the grace sleep.  on_modified of the policy path: read
\* the file and rewrite it when it is cleared; every error inside is
\* swallowed.  Everything else: no handler is defined, the event is dropped.
DaemonDispatchAlt(p) ==
    /\ DispatcherFree(proc[p])
    /\ evq[p] # <<>>
    /\ LET e == Head(evq[p])
           rest == [evq EXCEPT ![p] = Tail(@)]
       IN IF e.kind = "deleted"
          THEN /\ proc' = [proc EXCEPT ![p] = "grace"]
               /\ evq' = rest
               /\ UNCHANGED policy
          ELSE IF e.kind = "modified" /\ IsPolicyPath(e)
                  /\ policy # Absent /\ IsCleared(policy) /\ fsOk
          THEN /\ policy' = Rendered
               /\ evq' = Emit(rest, proc, WriteEvents(policy))
               /\ UNCHANGED proc
          ELSE /\ evq' = rest
               /\ UNCHANGED <<policy, proc>>
    /\ UNCHANGED <<lock, fsOk, npid, cli, hasTermios, syncVars, pubVars>>
DaemonDispatch(p) ==
    /\ DispatcherFree(proc[p])
    /\ evq[p] # <<>>
    /\ LET e == Head(evq[p])
           rest == [evq EXCEPT ![p] = Tail(@)]
       IN IF e.kind = "deleted" /\ IsPolicyPath(e)
          THEN /\ proc' = [proc EXCEPT ![p] = "grace"]
               /\ evq' = rest
               /\ UNCHANGED policy
          ELSE IF e.kind = "modified" /\ IsPolicyPath(e)
                  /\ policy # Absent /\ IsCleared(policy) /\ fsOk
          THEN /\ policy' = Rendered
               /\ evq' = Emit(rest, proc, WriteEvents(policy))
               /\ UNCHANGED proc
          ELSE /\ evq' = rest
               /\ UNCHANGED <<policy, proc>>
    /\ UNCHANGED <<lock, fsOk, npid, cli, hasTermios, syncVars, pubVars>>

\* on_deleted after time.sleep(0.5): create_chrome_policy().  Nothing
\* catches an error here: it ends the dispatcher thread, the process stays
\* (main() sleeps in its loop) and no later notification is dispatched.
DaemonRestore(p) ==
    /\ proc[p] = "grace"
    /\ IF fsOk
       THEN /\ policy' = Rendered
            /\ evq' = Emit(evq, proc, WriteEvents(policy))
            /\ proc' = [proc EXCEPT ![p] = "watching"]
       ELSE /\ proc' = [proc EXCEPT ![p] = "deaf"]
            /\ evq' = [evq EXCEPT ![p] = <<>>]
            /\ UNCHANGED policy
    /\ UNCHANGED <<lock, fsOk, npid, cli, hasTermios, syncVars, pubVars>>

\* ------------------------------------------------------------------------
\* sync() step by step, and a reader of the target
\* ------------------------------------------------------------------------
chromeVars == <<policy, lock, fsOk, proc, evq, npid, cli, hasTermios>>

\* sync(file_content, file_path) is called
SyncCall(content) ==
    /\ sy.pc = "idle"
    /\ sy' = [sy EXCEPT !.pc = "check", !.content = content, !.wbuf = <<>>,
                        !.fd = "none", !.old = target,
                        !.again = (sy.prev = content), !.wrote = FALSE]
    /\ seen' = {}
    /\ UNCHANGED <<target, temp, sameFs, chromeVars, pubVars>>

\* `if os.path.exists(file_path):` and the comparison of the two hashes
SyncCheck ==
    /\ sy.pc = "check"
    /\ IF target # Absent /\ SameHash(target, sy.content)
       THEN sy' = [sy EXCEPT !.pc = "idle", !.prev = sy.content]
       ELSE sy' = [sy EXCEPT !.pc = "mkstemp"]
    /\ UNCHANGED <<target, temp, sameFs, seen, chromeVars, pubVars>>

\* fd, path = tempfile.mkstemp(): an empty file in the default temporary
\* directory; os.fdopen(fd, "w")
SyncMkstemp ==
    /\ sy.pc = "mkstemp"
    /\ temp' = <<>>
    /\ sy' = [sy EXCEPT !.pc = "write", !.fd = "temp"]
    /\ UNCHANGED <<target, sameFs, seen, chromeVars, pubVars>>

\* tmp.write(file_content)
SyncWrite ==
    /\ sy.pc = "write"
    /\ IF WritesThrough(sy.content)
       THEN /\ temp' = sy.content
            /\ sy' = [sy EXCEPT !.pc = "move"]
       ELSE /\ sy' = [sy EXCEPT !.pc = "move", !.wbuf = sy.content]
            /\ UNCHANGED temp
    /\ UNCHANGED <<target, sameFs, seen, chromeVars, pubVars>>

\* shutil.move(path, file_path), still inside the `with` block.  Same
\* filesystem: os.rename, the target now is the temporary file.  Otherwise
\* shutil.copy2 opens the target for writing, which empties it.
SyncMove ==
    /\ sy.pc = "move"
    /\ IF sameFs
       THEN /\ target' = temp
            /\ temp' = Absent
            /\ sy' = [sy EXCEPT !.pc = "close", !.fd = "target", !.wrote = TRUE]
       ELSE /\ target' = <<>>
            /\ sy' = [sy EXCEPT !.pc = "copy", !.wrote = TRUE]
            /\ UNCHANGED temp
    /\ UNCHANGED <<sameFs, seen, chromeVars, pubVars>>

\* shutil.move across filesystems, second half: the bytes of the temporary
\* file are copied and the temporary file is unlinked; the descriptor keeps
\* the unlinked file open
SyncCopy ==
    /\ sy.pc = "copy"
    /\ target' = temp
    /\ temp' = Absent
    /\ sy' = [sy EXCEPT !.pc = "close", !.fd = "orphan"]
    /\ UNCHANGED <<sameFs, seen, chromeVars, pubVars>>

\* os.chmod(file_path, 0o644), then the `with` block ends: close() writes
\* the stream buffer to the file the descriptor refers to
SyncClose ==
    /\ sy.pc = "close"
    /\ target' = IF sy.fd = "target" THEN target \o sy.wbuf ELSE target
    /\ sy' = [sy EXCEPT !.pc = "idle", !.wbuf = <<>>, !.fd = "none",
                        !.prev = sy.content]
    /\ UNCHANGED <<temp, sameFs, seen, chromeVars, pubVars>>

\* another process reads the target
ReadTarget ==
    /\ seen' = seen \cup {target}
    /\ UNCHANGED <<target, temp, sameFs, sy, chromeVars, pubVars>>

\* a file that sync() is called for, in any state a caller may find it in
InitSync ==
    /\ InitChrome
    /\ hasTermios = TRUE
    /\ target \in {Absent} \cup SyncContents
    /\ temp = Absent
    /\ sameFs \in BOOLEAN
    /\ sy = IdleSync
    /\ seen = {}
    /\ PublishAtRest

NextSync ==
    \/ \E content \in SyncContents : SyncCall(content)
    \/ SyncCheck
    \/ SyncMkstemp
    \/ SyncWrite
    \/ SyncMove
    \/ SyncCopy
    \/ SyncClose
    \/ ReadTarget

SpecSync == InitSync /\ [][NextSync]_vars

\* ------------------------------------------------------------------------
\* publish() step by step
\* ------------------------------------------------------------------------
\* the service path and the file name of the loop iteration in hand
Current == pb.targets[pb.i]

Did(op, arg) == Append(pb.ops, <<op, arg>>)

\* publish is called: expected_systemd_services_paths is computed
PublishCall(count) ==
    /\ pb.pc \in {"idle", "failed"}
    /\ \E t \in GetTargetSystemServicePaths(count) :
          pb' = [pb EXCEPT !.pc = IF t = <<>> THEN "reload" ELSE "sync",
                           !.count = count, !.targets = t, !.i = 1, !.ops = <<>>,
                           !.foreign = { f \in SeqRange(GetFakeServicePaths) :
                                           svc[f] = ForeignUnit },
                           !.had = { f \in UnitPaths : svc[f] # Absent },
                           !.again = (pb.prev # NoPublish /\ pb.prevCount = count)]
    /\ UNCHANGED <<namesFile, svc, bins, chromeVars, syncVars>>

\* sync(systemd_service, service_path)
PublishSync ==
    /\ pb.pc = "sync"
    /\ svc' = [svc EXCEPT ![Current] =
                  SyncResult(svc[Current], ServiceTemplate(NoExt(Basename(Current))))]
    /\ pb' = [pb EXCEPT !.pc = "stop", !.ops = Did("sync", Current)]
    /\ UNCHANGED <<namesFile, bins, chromeVars, syncVars>>

\* os.system("systemctl stop <file_name>")
PublishStop ==
    /\ pb.pc = "stop"
    /\ pb' = [pb EXCEPT !.pc = "copy", !.ops = Did("stop", Basename(Current))]
    /\ UNCHANGED <<namesFile, svc, bins, chromeVars, syncVars>>

\* shutil.copyfile(bin_path, bin_dst_folder/<file_name_no_ext>), then the
\* next service path, or `systemctl daemon-reload` after the last one.  With
\* an empty name the destination is the folder itself: copyfile raises
\* IsADirectoryError, which ends publish.
PublishCopy ==
    /\ pb.pc = "copy"
    /\ IF NoExt(Basename(Current)) = <<>>
       THEN /\ pb' = [pb EXCEPT !.pc = "failed"]
            /\ UNCHANGED bins
       ELSE /\ bins' = bins \cup { NoExt(Basename(Current)) }
            /\ pb' = [pb EXCEPT !.pc = IF pb.i < Len(pb.targets) THEN "sync" ELSE "reload",
                                !.i = IF pb.i < Len(pb.targets) THEN pb.i + 1 ELSE 1,
                                !.ops = Did("copy", NoExt(Basename(Current)))]
    /\ UNCHANGED <<namesFile, svc, chromeVars, syncVars>>

\* os.system("systemctl daemon-reload"); with no target publish returns
PublishReload ==
    /\ pb.pc = "reload"
    /\ IF pb.targets = <<>>
       THEN pb' = [pb EXCEPT !.pc = "idle", !.ops = Did("daemon-reload", <<>>),
                            !.prev = pb.targets, !.prevCount = pb.count]
       ELSE pb' = [pb EXCEPT !.pc = "start", !.ops = Did("daemon-reload", <<>>)]
    /\ UNCHANGED <<namesFile, svc, bins, chromeVars, syncVars>>

\* os.system("systemctl start <basename of the service path>")
PublishStart ==
    /\ pb.pc = "start"
    /\ pb' = [pb EXCEPT !.pc = "enable", !.ops = Did("start", Basename(Current))]
    /\ UNCHANGED <<namesFile, svc, bins, chromeVars, syncVars>>

\* os.system("systemctl enable ..."), then the next service path, or return
PublishEnableAlt ==
    /\ pb.pc = "enable"
    /\ IF pb.i < Len(pb.targets)
       THEN pb' = [pb EXCEPT !.pc = "reload", !.i = pb.i + 1,
                            !.ops = Did("enable", Basename(Current))]
       ELSE pb' = [pb EXCEPT !.pc = "idle", !.ops = Did("enable", Basename(Current)),
                            !.prev = pb.targets, !.prevCount = pb.count]
    /\ UNCHANGED <<namesFile, svc, bins, chromeVars, syncVars>>
PublishEnable ==
    /\ pb.pc = "enable"
    /\ IF pb.i < Len(pb.targets)
       THEN pb' = [pb EXCEPT !.pc = "start", !.i = pb.i + 1,
                            !.ops = Did("enable", Basename(Current))]
       ELSE pb' = [pb EXCEPT !.pc = "idle", !.ops = Did("enable", Basename(Current)),
                            !.prev = pb.targets, !.prevCount = pb.count]
    /\ UNCHANGED <<namesFile, svc, bins, chromeVars, syncVars>>

\* a host before the first publish: a names file, some services of its own
InitPublish ==
    /\ InitChrome
    /\ hasTermios = TRUE
    /\ target = Absent
    /\ temp = Absent
    /\ sameFs \in BOOLEAN
    /\ sy = IdleSync
    /\ seen = {}
    /\ namesFile \in NamesFiles
    /\ svc \in [UnitPaths -> {Absent, ForeignUnit}]
    /\ svc[ServicePath(<<"\n">>)] = Absent
    /\ bins = {}
    /\ pb = IdlePublish

NextPublish ==
    \/ \E count \in Counts : PublishCall(count)
    \/ PublishSync
    \/ PublishStop
    \/ PublishCopy
    \/ PublishReload
    \/ PublishStart
    \/ PublishEnable

SpecPublish == InitPublish /\ [][NextPublish]_vars

\* ------------------------------------------------------------------------
\* Environment
\* ------------------------------------------------------------------------
\* a daemon process dies on its own (crash, kill -9)
DaemonDie(p) ==
    /\ proc[p] \notin {"unborn", "dead"}
    /\ proc' = [proc EXCEPT ![p] = "dead"]
    /\ evq' = [evq EXCEPT ![p] = <<>>]
    /\ UNCHANGED <<policy, lock, fsOk, npid, cli, hasTermios, syncVars, pubVars>>

\* somebody deletes the policy file
TamperDelete ==
    /\ policy # Absent
    /\ QueueRoom
    /\ policy' = Absent
    /\ evq' = Emit(evq, proc, <<Ev("deleted", "policy")>>)
    /\ UNCHANGED <<lock, fsOk, proc, npid, cli, hasTermios, syncVars, pubVars>>

\* somebody overwrites the policy file in place; truncation and write are
\* taken as one step, seen by a watcher as one modification
TamperWrite(content) ==
    /\ QueueRoom
    /\ policy # content
    /\ policy' = content
    /\ evq' = Emit(evq, proc, WriteEvents(policy))
    /\ UNCHANGED <<lock, fsOk, proc, npid, cli, hasTermios, syncVars, pubVars>>

\* somebody renames the policy file to another name of the directory
TamperMoveAway ==
    /\ policy # Absent
    /\ QueueRoom
    /\ policy' = Absent
    /\ evq' = Emit(evq, proc, <<Ev("moved", "policy")>>)
    /\ UNCHANGED <<lock, fsOk, proc, npid, cli, hasTermios, syncVars, pubVars>>

\* somebody renames another file of the directory to the policy path: the
\* notification carries the other file as its source
TamperMoveOnto(content) ==
    /\ QueueRoom
    /\ policy # content
    /\ policy' = content
    /\ evq' = Emit(evq, proc, <<Ev("moved", "other")>>)
    /\ UNCHANGED <<lock, fsOk, proc, npid, cli, hasTermios, syncVars, pubVars>>

\* what can happen to another file of the watched directory
OtherKinds == {"created", "modified", "deleted", "moved"}

\* something happens to another file of the policy directory
TamperOther(kind) ==
    /\ QueueRoom
    /\ evq' = Emit(evq, proc, <<Ev(kind, "other")>>)
    /\ UNCHANGED <<policy, lock, fsOk, proc, npid, cli, hasTermios, syncVars, pubVars>>

\* writes of the policy file start to fail (permissions, disk full,
\* plugins.yml unreadable) and work again
FsBreak ==
    /\ fsOk
    /\ fsOk' = FALSE
    /\ UNCHANGED <<policy, lock, proc, evq, npid, cli, hasTermios, syncVars, pubVars>>

FsRepair ==
    /\ ~fsOk
    /\ fsOk' = TRUE
    /\ UNCHANGED <<policy, lock, proc, evq, npid, cli, hasTermios, syncVars, pubVars>>

\* ------------------------------------------------------------------------
\* Specifications
\* ------------------------------------------------------------------------
CliStep(c) ==
    \/ \E cmd \in {"on", "off", "status"}, d \in DurationInputs : Invoke(c, cmd, d)
    \/ CliCreatePolicy(c)
    \/ StartCheck(c)
    \/ StartSpawn(c)
    \/ StartWriteLock(c)
    \/ Status(c)
    \/ Finish(c)
    \/ OffValidate(c)
    \/ OffFetchQuote(c)
    \/ GateEnter(c)
    \/ GateRead(c)
    \/ GateCheck(c)
    \/ OffStopDaemon(c)
    \/ OffRemovePolicy(c)
    \/ OffSleep(c)

DaemonStep(p) ==
    \/ DaemonStartup(p)
    \/ DaemonDispatch(p)
    \/ DaemonRestore(p)

\* the commands, run one at a time, the daemons they start, and a user who
\* deletes the policy file by hand
Next ==
    \/ \E c \in Slots : CliStep(c)
    \/ \E c \in Slots, ch \in Keys : Key(c, ch)
    \/ \E c \in Slots : Interrupt(c)
    \/ \E p \in Pids : DaemonStep(p)
    \/ \E p \in Pids : DaemonDie(p)
    \/ TamperDelete
    \/ FsBreak
    \/ FsRepair

Spec == Init /\ [][Next]_vars

\* `on` typed in a shell while commands of other shells may be running
InvokeConcurrent(c) ==
    /\ cli[c].pc = "idle"
    /\ QueueRoom
    /\ cli' = [cli EXCEPT ![c] = [IdleCli EXCEPT !.pc = FirstPc("on"), !.cmd = "on"]]
    /\ UNCHANGED <<policy, lock, fsOk, proc, evq, npid, hasTermios, syncVars, pubVars>>

\* enable commands of several shells side by side, and the daemons
NextConc ==
    \/ \E c \in Slots : InvokeConcurrent(c)
    \/ \E c \in Slots : CliCreatePolicy(c)
    \/ \E c \in Slots : StartCheck(c)
    \/ \E c \in Slots : StartSpawn(c)
    \/ \E c \in Slots : StartWriteLock(c)
    \/ \E c \in Slots : Finish(c)
    \/ \E p \in Pids : DaemonStartup(p)
    \/ \E p \in Pids : DaemonDispatch(p)

SpecConc == Init /\ [][NextConc]_vars

\* a started daemon and a tamperer: the state right after `on` returned
InitWatch ==
    /\ policy = Rendered
    /\ lock = 1
    /\ fsOk = TRUE
    /\ proc = [p \in Pids |-> IF p = 1 THEN "starting" ELSE "unborn"]
    /\ evq = [p \in Pids |-> <<>>]
    /\ npid = 1
    /\ cli = [c \in Slots |-> IdleCli]
    /\ hasTermios = TRUE
    /\ SyncAtRest
    /\ PublishAtRest

NextWatch ==
    \/ \E p \in Pids : DaemonStep(p)
    \/ \E p \in Pids : DaemonDie(p)
    \/ TamperDelete
    \/ \E content \in TamperContents : TamperWrite(content)
    \/ TamperMoveAway
    \/ \E content \in TamperContents : TamperMoveOnto(content)
    \/ \E kind \in OtherKinds : TamperOther(kind)
    \/ FsBreak
    \/ FsRepair

\* the dispatcher thread and the main thread of a daemon run when they can
FairWatch == \A p \in Pids : WF_vars(DaemonStep(p))

SpecWatch == InitWatch /\ [][NextWatch]_vars /\ FairWatch

\* ------------------------------------------------------------------------
\* Properties of the disable command
\* ------------------------------------------------------------------------
Range(s) == { s[i] : i \in 1..Len(s) }

IsPrefix(s, t) == Len(s) <= Len(t) /\ SubSeq(t, 1, Len(s)) = s

LastCall(r) == IF r.calls = <<>> THEN "" ELSE r.calls[Len(r.calls)]

Live == { p \in Pids : proc[p] \notin {"unborn", "dead"} }

\* a step of the off command in slot c
OffStep(c) == cli[c].cmd = "off" /\ cli'[c] # cli[c]

C1_Step(c) ==
    OffStep(c) =>
      /\ cli'[c].gate # "MATCHED" => UNCHANGED <<proc, lock, policy>>
      /\ cli'[c].calls # cli[c].calls
           /\ LastCall(cli'[c]) \in {"stop_daemon", "remove_chrome_policy"}
         => /\ cli[c].gate = "MATCHED"
            /\ hasTermios => cli[c].typed = cli[c].quote /\ cli[c].char = "CR"

C2_PasteAlwaysDetected ==
    \A c \in Slots :
        cli[c].paste /\ cli[c].gate # "TYPING" =>
            /\ cli[c].gate = "PASTE_DETECTED"
            /\ "stop_daemon" \notin Range(cli[c].calls)

C3_Step(c) ==
    OffStep(c) /\ cli[c].duration # <<>> =>
      LET n == cli[c].duration[1]
      IN /\ n < 1 \/ n > 60 =>
              /\ cli'[c].calls = <<>>
              /\ cli'[c].gate = "IDLE"
              /\ cli'[c].pc \in {"done", "idle"}
              /\ UNCHANGED <<proc, lock, policy>>
         /\ n \in 1..60 /\ cli[c].pc = "off_validate" =>
              /\ cli'[c].pc = "off_quote"
              /\ cli'[c].msg # "duration error"

\* C3: an `off --duration N` with N < 1 or N > 60 ends without fetching a
\* quote and without a change to processes, lock file or policy file; with N
\* in 1..60 the validation passes on to the quote and the gate.
C3_DurationBound == [][\A c \in Slots : C3_Step(c)]_vars

\* `off --duration 61` was rejected while enforcement is active
C3_Witness ==
    \E c \in Slots :
        /\ cli[c].cmd = "off" /\ cli[c].duration = <<61>> /\ cli[c].pc = "done"
        /\ cli[c].msg = "duration error"
        /\ lock # 0 /\ lock \in Live /\ policy = Rendered

\* ------------------------------------------------------------------------
\* Properties of start and stop
\* ------------------------------------------------------------------------
\* start_daemon() found no usable lock (saw is "nolock" or "stale") and went
\* on: it never reports "already running", and once it returned the lock
\* file records the one process it spawned
StartedFresh(c) ==
    /\ cli[c].msg # "already running"
    /\ cli[c].pc \in {"start_spawn", "start_lock", "done"}
    /\ cli[c].pc = "start_spawn" => cli[c].spawned = 0
    /\ cli[c].pc \in {"start_lock", "done"} =>
          /\ cli[c].spawned = npid
          /\ proc[cli[c].spawned] # "unborn"
    /\ cli[c].pc = "done" => lock = cli[c].spawned /\ cli[c].msg = "started"

\* C4: start_daemon() that finds a lock file with the pid of a dead process
\* does what it does with no lock file: it spawns one process and the lock
\* file then records that process; it never reports "already running".
C4_StaleLockRecovery ==
    \A c \in Slots : cli[c].saw \in {"nolock", "stale"} => StartedFresh(c)

\* start_daemon() returned after it had found a stale lock
C4_Witness ==
    \E c \in Slots :
        /\ cli[c].saw = "stale" /\ cli[c].pc = "done"
        /\ lock = cli[c].spawned /\ lock \in Live

AtRest == \A c \in Slots : cli[c].pc \in {"idle", "done", "aborted"}

\* C5: whenever no command is running, at most one daemon process is alive
\* and a live daemon is the one the lock file records.
C5_SingleDaemon ==
    AtRest => /\ Cardinality(Live) <= 1
              /\ \A p \in Live : lock = p

\* a second daemon runs after the first one died, and is the recorded one
C5_Witness ==
    /\ AtRest
    /\ \E p \in Pids : proc[p] = "dead"
    /\ Live = {lock}

\* ------------------------------------------------------------------------
\* Properties of the untimed disable
\* ------------------------------------------------------------------------
\* an off command without --duration that passed the gate
Untimed(c) == cli[c].cmd = "off" /\ cli[c].gate = "MATCHED" /\ cli[c].duration = <<>>

UntimedCalls == <<"get_motivational_quote", "stop_daemon", "remove_chrome_policy">>

\* the calls made so far are stop_daemon before remove_chrome_policy, and
\* once the command has returned nothing enforces: no daemon process, no
\* lock file, no policy file
C11_AtReturn ==
    \A c \in Slots :
        Untimed(c) =>
          /\ IsPrefix(cli[c].calls, UntimedCalls)
          /\ cli[c].pc = "done" =>
                /\ cli[c].calls = UntimedCalls
                /\ Live = {} /\ lock = 0 /\ policy = Absent

\* a step that writes the policy file
CliWrites(c) == cli[c].pc \in {"on_create", "off_create"} /\ cli'[c].pc = "start_check"

\* with no daemon alive, an absent policy file appears only by a command
\* that writes it (a later enable)
C11_Step ==
    policy = Absent /\ Live = {} /\ policy' # Absent => \E c \in Slots : CliWrites(c)

\* C11: an untimed disable that passed the gate calls stop_daemon before
\* remove_chrome_policy; when it has returned no daemon runs, the lock file
\* and the policy file are absent, and the policy file stays absent until a
\* later command writes it: no watcher restores it.
C11_DisabledStays == []C11_AtReturn /\ [][C11_Step]_vars

\* an untimed disable returned; it had signalled the recorded daemon
C11_Witness ==
    \E c \in Slots :
        /\ Untimed(c) /\ cli[c].pc = "done"
        /\ cli[c].sig \in Pids /\ proc[cli[c].sig] = "dead"
        /\ policy = Absent /\ lock = 0

\* ------------------------------------------------------------------------
\* Properties of enable
\* ------------------------------------------------------------------------
\* a step of the on command in slot c
OnStep(c) == cli[c].cmd = "on" /\ cli'[c] # cli[c]

\* the lock file records a process that is alive
LockLive == lock # 0 /\ lock \in Live

C15_Step(c) ==
    OnStep(c) /\ LockLive =>
      /\ UNCHANGED <<lock, proc, npid>>
      /\ policy' \in {policy, Rendered}
      /\ CliWrites(c) => policy' = Rendered
      /\ cli'[c].spawned = 0
      /\ cli'[c].pc \notin {"start_spawn", "start_lock"}
      /\ cli[c].pc = "start_check" => cli'[c].msg = "already running"

\* C15: every step of an `on` command taken while the lock file records a
\* live daemon spawns no process and leaves the lock file and the process
\* table as they are; the policy file is left alone or rewritten with the
\* rendered content, and start_daemon reports "already running".
C15_EnableIdempotent == [][\A c \in Slots : C15_Step(c)]_vars

\* a second `on` returned while the daemon of the first one watches; it is
\* the only process ever spawned
C15_Witness ==
    \E c \in Slots :
        /\ cli[c].cmd = "on" /\ cli[c].pc = "done" /\ cli[c].saw = "live"
        /\ cli[c].calls = <<"create_chrome_policy", "start_daemon">>
        /\ npid = 1 /\ lock = 1 /\ proc[1] = "watching" /\ policy = Rendered

\* the step of stop_daemon() in slot c
StopStep(c) == cli[c].pc = "off_stop" /\ cli'[c].pc = "off_remove"

C16_Step(c) ==
    StopStep(c) =>
      /\ lock = 0 =>
            /\ cli'[c].sig = 0
            /\ UNCHANGED <<lock, proc, evq, policy, npid, fsOk>>
      /\ LockLive =>
            /\ cli'[c].sig = lock
            /\ proc' = [proc EXCEPT ![lock] = "dead"]
            /\ lock' = 0
      /\ lock # 0 /\ ~LockLive =>
            /\ cli'[c].sig = 0
            /\ proc' = proc
            /\ lock' = 0

\* C16: stop_daemon() with a lock file signals the recorded pid exactly
\* when that process is alive, which ends it, and removes the lock file
\* either way; with no lock file it sends no signal and changes nothing.
C16_StopSignalsLiveOnly == [][\A c \in Slots : C16_Step(c)]_vars

\* stop_daemon() returned after it had found the lock of a dead process
C16_Witness ==
    \E c \in Slots :
        /\ cli[c].pc = "off_remove" /\ cli[c].found = "stale"
        /\ cli[c].sig = 0 /\ lock = 0

\* the steps of start_daemon() after its check: Popen and the write of the
\* lock file look at nothing another invocation did in between
C19_Step(c) ==
    /\ cli[c].pc = "start_spawn" /\ cli'[c] # cli[c] =>
          /\ npid' = npid + 1
          /\ proc' = [proc EXCEPT ![npid + 1] = "starting"]
          /\ cli'[c].spawned = npid + 1
          /\ lock' = lock
    /\ cli[c].pc = "start_lock" /\ cli'[c] # cli[c] =>
          /\ lock' = cli[c].spawned
          /\ proc' = proc

\* C19: an invocation of start_daemon() that has passed its check spawns
\* a daemon and then records it in the lock file whatever other
\* invocations have spawned or recorded since the check; the daemon
\* recorded before stays alive and is no longer recorded.
C19_NoRecheck == [][\A c \in Slots : C19_Step(c)]_vars

\* two invocations have returned, each with a daemon of its own; both
\* daemons watch and the lock file records one of them
C19_Witness ==
    \E c, d \in Slots :
        /\ c # d
        /\ cli[c].pc = "done" /\ cli[c].msg = "started" /\ cli[c].saw = "nolock"
        /\ cli[d].pc = "done" /\ cli[d].msg = "started" /\ cli[d].saw = "nolock"
        /\ cli[c].spawned # cli[d].spawned
        /\ proc[cli[c].spawned] = "watching" /\ proc[cli[d].spawned] = "watching"
        /\ lock = cli[d].spawned

\* C17 (as claimed): a command writes the policy file only while no
\* watching daemon is alive.
C17_WritesOnlyWhenStopped ==
    [][\A c \in Slots : CliWrites(c) => \A p \in Pids : proc[p] # "watching"]_vars

\* ------------------------------------------------------------------------
\* Properties of the timed disable
\* ------------------------------------------------------------------------
\* a timed off command that passed the gate and returned
TimedDone(c) ==
    /\ cli[c].cmd = "off" /\ cli[c].pc = "done"
    /\ cli[c].gate = "MATCHED" /\ cli[c].duration # <<>>

TimedCalls ==
    <<"get_motivational_quote", "stop_daemon", "remove_chrome_policy",
      "sleep", "create_chrome_policy", "start_daemon">>

C10_WaitNotCancellable ==
    \A c \in Slots :
        /\ cli[c].cmd = "off" /\ cli[c].duration # <<>>
        /\ "remove_chrome_policy" \in Range(cli[c].calls)
        /\ cli[c].pc # "off_sleep"
        => "sleep" \in Range(cli[c].calls)

\* ------------------------------------------------------------------------
\* Properties of the watcher
\* ------------------------------------------------------------------------
Queued(p, e) == \E i \in 1..Len(evq[p]) : evq[p][i] = e

\* watcher p has the deletion of the policy file in its queue or in hand
DeletePending(p) ==
    \/ proc[p] = "grace"
    \/ proc[p] = "watching" /\ Queued(p, Ev("deleted", "policy"))

\* C6: while a daemon watches, a deletion of the policy file it was notified
\* of leads to the policy file holding the rendered content, unless writes
\* fail or the daemon process is killed meanwhile.
C6_DeleteRestored ==
    \A p \in Pids :
        DeletePending(p) ~> (policy = Rendered \/ ~fsOk \/ proc[p] = "dead")

\* the watcher is in its grace sleep, the file is gone
C6_Witness ==
    \E p \in Pids : proc[p] = "grace" /\ policy = Absent /\ fsOk

\* the policy file holds nothing or the two characters {}
ClearedFile == policy \in { <<>>, <<"{", "}">> }

\* watcher p has the modification in its queue and the file is cleared
ClearPending(p) ==
    proc[p] = "watching" /\ ClearedFile /\ Queued(p, Ev("modified", "policy"))

\* C7: while a daemon watches, a policy file overwritten with nothing or
\* with {} does not stay so: the daemon rewrites it with the rendered
\* content, unless another writer replaces or deletes the file first,
\* writes fail or the daemon process is killed.
C7_ClearRestored ==
    \A p \in Pids :
        ClearPending(p) ~> (policy = Rendered \/ ~ClearedFile \/ ~fsOk \/ proc[p] = "dead")

\* the watcher has the modification of a file cleared to {} in its queue
C7_Witness ==
    \E p \in Pids : ClearPending(p) /\ policy = <<"{", "}">> /\ fsOk

C20_Step(p) ==
    proc[p] = "grace" =>
      \/ proc'[p] = "grace" /\ IsPrefix(evq[p], evq'[p]) /\ policy' \in {policy, Absent} \cup TamperContents
      \/ proc'[p] = "watching" /\ policy' = Rendered /\ IsPrefix(evq[p], evq'[p])
      \/ proc'[p] \in {"deaf", "dead"}

\* C20: while a daemon is in the restore of a deletion (grace sleep, then
\* rewrite) it takes no notification from its queue: the queue only grows
\* until the restore has written the file or has failed, whatever is queued.
C20_RestoresDoNotOverlap == [][\A p \in Pids : C20_Step(p)]_vars

\* a daemon in its grace sleep with notifications waiting behind it
C20_Witness ==
    \E p \in Pids :
        /\ proc[p] = "grace" /\ Len(evq[p]) >= 2
        /\ Queued(p, Ev("modified", "policy"))

\* ------------------------------------------------------------------------
\* Properties of sync
\* ------------------------------------------------------------------------
\* sync() has returned: the target is what SyncResult says
SyncReturns ==
    sy.pc = "idle" /\ sy.prev # NoCall => target = SyncResult(sy.old, sy.content)

\* C13 (as claimed): the second of two calls of sync() in a row with the
\* same content finds equal hashes and does not touch the target.
C13_SecondSyncSkips == sy.again => ~sy.wrote /\ sy.pc \in {"check", "idle"}

\* C14 (as claimed): what a reader finds in the target during a call of
\* sync() and after it is the content from before the call or the content
\* passed to the call.
C14_ReaderSeesWhole ==
    sy.pc # "idle" \/ sy.prev # NoCall => seen \subseteq {sy.old, sy.content}

\* ------------------------------------------------------------------------
\* Properties of publish
\* ------------------------------------------------------------------------
\* C12 (as claimed): a publish that found a candidate name taken by a
\* foreign service does nothing: no sync, no stop, no copy, and the foreign
\* service file is never overwritten.
C12_AbortsOnForeign ==
    pb.foreign # {} =>
        /\ pb.ops = <<>>
        /\ \A f \in pb.foreign : svc[f] = ForeignUnit

\* q is in the order of sort() and has no element twice
IsSorted(q) == \A i, j \in 1..Len(q) : i < j => Before(q[i], q[j])

\* C18: a publish with the count of the publish that completed last has
\* the targets of that publish, a sorted list without duplicates, and
\* creates no service file.
C18_RepublishSame ==
    pb.again =>
        /\ pb.targets = pb.prev
        /\ IsSorted(pb.targets)
        /\ { f \in UnitPaths : svc[f] # Absent } = pb.had

\* a second publish for two replicas has returned; the names file offers
\* more names than two
C18_Witness ==
    /\ pb.again /\ pb.pc = "idle" /\ pb.count = 2
    /\ Len(pb.targets) = 2 /\ pb.ops # <<>>
    /\ Cardinality(SeqRange(GetFakeServicePaths)) > 2

\* publish has been called: pb describes its last call
Published == pb.pc # "idle" \/ pb.ops # <<>>

\* C: the service paths of the names file
Candidates == { ServicePath(namesFile[i]) : i \in 1..Len(namesFile) }

\* D: the candidates that were units of the host when publish was called (a
\* file named ".service" has no unit name and is no unit)
Deployed == { f \in Candidates : f \in pb.had /\ NoExt(Basename(f)) # <<>> }

Max(a, b) == IF a > b THEN a ELSE b

Min(a, b) == IF a < b THEN a ELSE b

\* C21: the targets of a publish contain every deployed candidate and only
\* candidates, are sorted without duplicates, and number
\* max(|D|, min(count, |C|)); with |D| >= count they are the deployed ones.
C21_TargetSet ==
    Published =>
        LET T == SeqRange(pb.targets)
        IN /\ Deployed \subseteq T
           /\ T \subseteq Candidates
           /\ IsSorted(pb.targets)
           /\ Len(pb.targets) = Cardinality(T)
           /\ Cardinality(T) = Max(Cardinality(Deployed), Min(pb.count, Cardinality(Candidates)))
           /\ Cardinality(Deployed) >= pb.count => T = Deployed

\* a publish for two replicas found one of three candidates deployed and
\* chose one of the other two
C21_Witness ==
    /\ Published /\ pb.count = 2
    /\ Cardinality(Deployed) = 1 /\ Cardinality(Candidates) = 3
    /\ Len(pb.targets) = 2

\* staging of one target, and its launch
Stage(t) == << <<"sync", t>>, <<"stop", Basename(t)>>, <<"copy", NoExt(Basename(t))>> >>

Launch(t) == << <<"start", Basename(t)>>, <<"enable", Basename(t)>> >>

RECURSIVE StageAll(_)
StageAll(q) == IF q = <<>> THEN <<>> ELSE Stage(Head(q)) \o StageAll(Tail(q))

RECURSIVE LaunchAll(_)
LaunchAll(q) == IF q = <<>> THEN <<>> ELSE Launch(Head(q)) \o LaunchAll(Tail(q))

\* what a publish run with the targets q does when it runs to its end
FullRun(q) == StageAll(q) \o << <<"daemon-reload", <<>>>> >> \o LaunchAll(q)

\* C22: what a publish run has done so far is a beginning of: sync, stop,
\* copy for each target in turn, then one daemon-reload, then start and
\* enable for each target; a run that has returned has done all of it.
C22_StagedThenReloaded ==
    /\ IsPrefix(pb.ops, FullRun(pb.targets))
    /\ Published /\ pb.pc = "idle" => pb.ops = FullRun(pb.targets)

\* a publish run with two targets has returned
C22_Witness ==
    /\ Published /\ pb.pc = "idle"
    /\ Len(pb.targets) = 2 /\ Len(pb.ops) = 11

\* watcher p is about to handle the notification e
Handles(p, e) == proc[p] = "watching" /\ evq[p] # <<>> /\ Head(evq[p]) = e

\* a step that writes the rendered policy over something else
RestoreWrite == policy' = Rendered /\ policy # Rendered

\* a watcher goes into the restore of a deletion only on the notification
\* of the deletion of the policy file
GraceOnlyOnDelete ==
    \A p \in Pids :
        proc[p] = "watching" /\ proc'[p] = "grace" => Handles(p, Ev("deleted", "policy"))

\* C23 (as claimed): the policy file is written only by a daemon that
\* starts without it, that restores a deletion, or that handles a
\* modification of the policy file holding nothing or {}.
C23_ReactsOnlyToEmpty ==
    [][/\ GraceOnlyOnDelete
       /\ RestoreWrite =>
             \E p \in Pids :
                \/ proc[p] = "starting" /\ policy = Absent
                \/ proc[p] = "grace"
                \/ Handles(p, Ev("modified", "policy")) /\ ClearedFile]_vars

\* the policy file, stripped of blanks around it, holds nothing or {}
StrippedClear == policy # Absent /\ Strip(policy) \in { <<>>, <<"{", "}">> }

\* C23 (amended): the policy file is written only by a daemon that starts
\* without it, that restores a deletion, or that handles a modification of
\* the policy file while the file, stripped of surrounding blanks, holds
\* nothing or {}; creations, renames, notifications of other files and
\* modifications with other content cause no write and no restore.
C23_ReactsOnlyToCleared ==
    [][/\ GraceOnlyOnDelete
       /\ RestoreWrite =>
             \E p \in Pids :
                \/ proc[p] = "starting" /\ policy = Absent
                \/ proc[p] = "grace"
                \/ Handles(p, Ev("modified", "policy")) /\ StrippedClear]_vars

\* the policy file was renamed away, the watcher has dropped the
\* notification and does nothing about it
C23_Witness ==
    \E p \in Pids : proc[p] = "watching" /\ evq[p] = <<>> /\ policy = Absent /\ fsOk

\* C8 (as claimed): a daemon that has started its observer and is alive
\* keeps dispatching notifications, whatever happened to earlier restores.
C8_KeepsWatching ==
    \A p \in Pids : proc[p] \notin {"unborn", "starting", "dead"} => Observing(proc[p])

====
